---- MODULE Spec2Model ----
(***************************************************************************)
(* Playoff re-seeding and cascading-invalidation engine of the NFL playoff *)
(* predictor (server/src/services/season.ts): the bracket of one season,   *)
(* generated from 7 seeds per conference, and the winner-recording         *)
(* operation that re-seeds the later rounds.                               *)
(***************************************************************************)
EXTENDS Integers, Sequences, FiniteSets, TLC

VARIABLES games, seeds, result, last, detours, lobby, leaderboard, run

vars == <<games, seeds, result, last, detours, lobby, leaderboard, run>>

----------------------------------------------------------------------------
(* Bounds of the exploration *)

\* calls that leave the plain forward play of a bracket: a decided game given
\* another winner, a winner that is not one of the game's two teams, a game
\* that is still a placeholder, a game id that does not exist
MaxDetours == 1
\* the rounds after the wild card round are played on from brackets in which at
\* most this many wild card games went to another team than the home team
MaxUpsets == 0
\* the largest number of seeds a conference has when a bracket is generated
MaxSeeds == 8
\* the largest number of participants of the lobby
MaxParticipants == 2
\* the largest number of games deleted from the season
MaxDeleted == 1

----------------------------------------------------------------------------
(* Values *)

\* SQL NULL in the winner column
NULL == "NULL"
\* SQL NULL in a seed column
NullSeed == 0
\* sentinel team name of a placeholder game
TBD == "TBD"
\* a team abbreviation that is in no seed list (the score feed's spelling)
Unseeded == "KC"
\* a game id that is not in the games table
MissingGameId == 14

Conferences == <<"AFC", "NFC">>

TeamName(conference, seed) ==
    (IF conference = "AFC" THEN "A" ELSE "N") \o
    (CASE seed = 1 -> "1" [] seed = 2 -> "2" [] seed = 3 -> "3" [] seed = 4 -> "4"
       [] seed = 5 -> "5" [] seed = 6 -> "6" [] seed = 7 -> "7"
       [] OTHER -> ToString(seed))

\* rows of playoff_seeds in the order of getPlayoffSeeds: conference, seed
SeedRows ==
    [i \in 1..14 |->
        [conference |-> Conferences[((i - 1) \div 7) + 1],
         seed       |-> ((i - 1) % 7) + 1,
         team_abbr  |-> TeamName(Conferences[((i - 1) \div 7) + 1], ((i - 1) % 7) + 1)]]

----------------------------------------------------------------------------
(* generatePlayoffGamesFromSeeds *)

ConfSeeds(sds, conference) ==
    SelectSeq(sds, LAMBDA s : s.conference = conference)

NewGame(id, round, number, home, away, sh, sa, actual) ==
    [id |-> id, round |-> round, game_number |-> number,
     team_home |-> home, team_away |-> away,
     seed_home |-> sh, seed_away |-> sa,
     winner |-> NULL, completed |-> FALSE, is_actual_matchup |-> actual]

\* variant: the worse seed is written as the home team
WildCardGameAwayFirst(id, confSeeds, offset, i) ==
    NewGame(id, "wild_card", offset + i + 1,
            confSeeds[7 - i].team_abbr, confSeeds[2 + i].team_abbr,
            confSeeds[7 - i].seed, confSeeds[2 + i].seed, TRUE)

\* wild card game i (0..2) of a conference: #2 v #7, #3 v #6, #4 v #5
WildCardGame(id, confSeeds, offset, i) ==
    NewGame(id, "wild_card", offset + i + 1,
            confSeeds[2 + i].team_abbr, confSeeds[7 - i].team_abbr,
            confSeeds[2 + i].seed, confSeeds[7 - i].seed, TRUE)

\* variant: is_actual_matchup is left to its column default, 1
PlaceholderByDefault(id, round, number) ==
    NewGame(id, round, number, TBD, TBD, NullSeed, NullSeed, TRUE)

Placeholder(id, round, number) ==
    NewGame(id, round, number, TBD, TBD, NullSeed, NullSeed, FALSE)

generatePlayoffGamesFromSeeds(sds) ==
    [id \in 1..13 |->
        IF id <= 3 THEN WildCardGame(id, ConfSeeds(sds, "AFC"), 0, id - 1)
        ELSE IF id <= 6 THEN WildCardGame(id, ConfSeeds(sds, "NFC"), 3, id - 4)
        ELSE IF id <= 10 THEN Placeholder(id, "divisional", id - 6)
        ELSE IF id <= 12 THEN Placeholder(id, "conference", id - 10)
        ELSE Placeholder(id, "super_bowl", 1)]

\* rows of playoff_seeds of a season with the first afc seeds of one conference
\* and the first nfc seeds of the other, in the order of getPlayoffSeeds
SeedTable(afc, nfc) ==
    [i \in 1..(afc + nfc) |->
        IF i <= afc
        THEN [conference |-> "AFC", seed |-> i, team_abbr |-> TeamName("AFC", i)]
        ELSE [conference |-> "NFC", seed |-> i - afc, team_abbr |-> TeamName("NFC", i - afc)]]

\* variant: the games the season already has are kept
keepAllGamesForSeason(db) == db

\* DELETE FROM games WHERE season_id = ?
deleteAllGamesForSeason(db) == <<>>

\* INSERT INTO games, row after row. An id stands for the position of the row
\* among the season's games in id order (the database numbers new rows on
\* from the highest id it ever gave; only the order of the ids is ever used).
InsertGames(db, rows) ==
    [i \in 1..(Len(db) + Len(rows)) |->
        IF i <= Len(db) THEN db[i] ELSE [rows[i - Len(db)] EXCEPT !.id = i]]

NoSeedsError == "No playoff seeds defined for this season"
SevenSeedsError == "Each conference must have 7 seeds defined"

\* the games table and the error, if any, when generatePlayoffGamesFromSeeds returns
generateBracket(db, sds) ==
    IF Len(sds) = 0
    THEN [games |-> db, error |-> NoSeedsError]
    ELSE IF Len(ConfSeeds(sds, "AFC")) < 7 \/ Len(ConfSeeds(sds, "NFC")) < 7
    THEN [games |-> db, error |-> SevenSeedsError]
    ELSE [games |-> InsertGames(deleteAllGamesForSeason(db), generatePlayoffGamesFromSeeds(sds)),
          error |-> "ok"]

----------------------------------------------------------------------------
(* reseedPlayoffBracket and its helpers *)

\* getGamesBySeason(...).filter(g => g.round === round). The rows come ordered
\* by round and game_number; within a round that is the order of the ids,
\* because generatePlayoffGamesFromSeeds inserts each round in slot order.
RoundGames(gs, round) ==
    SelectSeq([i \in 1..Cardinality(DOMAIN gs) |-> gs[i]], LAMBDA g : g.round = round)

\* g.completed && g.winner
Decided(g) == g.completed /\ g.winner # NULL

\* variant: some() where the code has every()
isRoundCompleteSome(roundGames) ==
    Len(roundGames) > 0 /\ \E i \in 1..Len(roundGames) : Decided(roundGames[i])

isRoundComplete(roundGames) ==
    Len(roundGames) > 0 /\ \A i \in 1..Len(roundGames) : Decided(roundGames[i])

\* Array.prototype.find: the first of the rows hits, or undefined (0)
FirstIndex(hits) ==
    IF hits = {} THEN 0 ELSE CHOOSE i \in hits : \A j \in hits : i <= j

\* seeds.find(s => s.team_abbr === team): its seed, or null
getSeedForTeam(sds, team) ==
    LET i == FirstIndex({k \in 1..Len(sds) : sds[k].team_abbr = team})
    IN  IF i = 0 THEN NullSeed ELSE sds[i].seed

\* the number a seed stands for in "a.seed - b.seed": null counts as 0
Num(seed) == IF seed = NullSeed THEN 0 ELSE seed

\* variant: the list is left in game order
Unsorted(ws) == ws

\* Array.prototype.sort((a, b) => a.seed - b.seed): ascending and stable
RECURSIVE SortBySeed(_)
SortBySeed(ws) ==
    IF Len(ws) <= 1 THEN ws
    ELSE LET x     == ws[Len(ws)]
             front == SortBySeed(SubSeq(ws, 1, Len(ws) - 1))
             k     == Cardinality({i \in 1..Len(front) : Num(front[i].seed) <= Num(x.seed)})
         IN  SubSeq(front, 1, k) \o <<x>> \o SubSeq(front, k + 1, Len(front))

\* roundGames.map(g => ({team: g.winner, seed: getSeedForTeam(g.winner)}))
RECURSIVE WinnerEntries(_, _)
WinnerEntries(sds, roundGames) ==
    IF roundGames = <<>> THEN <<>>
    ELSE <<[team |-> Head(roundGames).winner,
            seed |-> getSeedForTeam(sds, Head(roundGames).winner)]>>
         \o WinnerEntries(sds, Tail(roundGames))

\* the winners of roundGames, best seed first
Winners(sds, roundGames) == SortBySeed(WinnerEntries(sds, roundGames))

\* UPDATE games SET winner = NULL, completed = 0
Cleared(g) == [g EXCEPT !.winner = NULL, !.completed = FALSE]

\* UPDATE games SET team_home, team_away, seed_home, seed_away, is_actual_matchup = 1
Matchup(g, teamHome, teamAway, seedHome, seedAway) ==
    [g EXCEPT !.team_home = teamHome, !.team_away = teamAway,
              !.seed_home = seedHome, !.seed_away = seedAway,
              !.is_actual_matchup = TRUE]

matchupChanged(game, teamHome, teamAway) ==
    game.team_home # teamHome \/ game.team_away # teamAway

\* UPDATE games SET winner = NULL, completed = 0 WHERE season_id = ? AND round = ?
ClearRound(db, round) ==
    [i \in DOMAIN db |-> IF db[i].round = round THEN Cleared(db[i]) ELSE db[i]]

\* variant: the divisional cascade stops at the conference round
updateDivisionalGameKeepsFinal(db, game, teamHome, teamAway, seedHome, seedAway) ==
    IF matchupChanged(game, teamHome, teamAway)
    THEN LET db1 == [db EXCEPT ![game.id] =
                        Cleared(Matchup(@, teamHome, teamAway, seedHome, seedAway))]
         IN  ClearRound(db1, "conference")
    ELSE IF ~game.is_actual_matchup
    THEN [db EXCEPT ![game.id] = Matchup(@, teamHome, teamAway, seedHome, seedAway)]
    ELSE db

\* variant: a changed divisional matchup is written without any cascade
updateDivisionalGameNoCascade(db, game, teamHome, teamAway, seedHome, seedAway) ==
    IF matchupChanged(game, teamHome, teamAway)
    THEN [db EXCEPT ![game.id] =
            Cleared(Matchup(@, teamHome, teamAway, seedHome, seedAway))]
    ELSE IF ~game.is_actual_matchup
    THEN [db EXCEPT ![game.id] = Matchup(@, teamHome, teamAway, seedHome, seedAway)]
    ELSE db

\* variant: the matchup is rewritten and cleared on every run, changed or not
updateDivisionalGameAlways(db, game, teamHome, teamAway, seedHome, seedAway) ==
    LET db1 == [db EXCEPT ![game.id] =
                    Cleared(Matchup(@, teamHome, teamAway, seedHome, seedAway))]
    IN  ClearRound(ClearRound(db1, "conference"), "super_bowl")

\* variant: only a placeholder is ever filled, an actual matchup is kept
updateDivisionalGameFillOnly(db, game, teamHome, teamAway, seedHome, seedAway) ==
    IF ~game.is_actual_matchup
    THEN [db EXCEPT ![game.id] = Matchup(@, teamHome, teamAway, seedHome, seedAway)]
    ELSE db

\* variant: only a placeholder is ever filled, an actual matchup is kept
updateConferenceGameFillOnly(db, game, teamHome, teamAway, seedHome, seedAway) ==
    IF ~game.is_actual_matchup
    THEN [db EXCEPT ![game.id] = Matchup(@, teamHome, teamAway, seedHome, seedAway)]
    ELSE db

\* variant: a changed divisional matchup is written but its winner is kept
updateDivisionalGameKeepsWinner(db, game, teamHome, teamAway, seedHome, seedAway) ==
    IF matchupChanged(game, teamHome, teamAway)
    THEN LET db1 == [db EXCEPT ![game.id] =
                        Matchup(@, teamHome, teamAway, seedHome, seedAway)]
         IN  ClearRound(ClearRound(db1, "conference"), "super_bowl")
    ELSE IF ~game.is_actual_matchup
    THEN [db EXCEPT ![game.id] = Matchup(@, teamHome, teamAway, seedHome, seedAway)]
    ELSE db

\* game is the row as it was read at the start of the run, db the table now
updateDivisionalGame(db, game, teamHome, teamAway, seedHome, seedAway) ==
    IF matchupChanged(game, teamHome, teamAway)
    THEN LET db1 == [db EXCEPT ![game.id] =
                        Cleared(Matchup(@, teamHome, teamAway, seedHome, seedAway))]
         IN  ClearRound(ClearRound(db1, "conference"), "super_bowl")
    ELSE IF ~game.is_actual_matchup
    THEN [db EXCEPT ![game.id] = Matchup(@, teamHome, teamAway, seedHome, seedAway)]
    ELSE db

\* variant: a changed conference matchup also clears the round that feeds it
updateConferenceGameClearsBelow(db, game, teamHome, teamAway, seedHome, seedAway) ==
    IF matchupChanged(game, teamHome, teamAway)
    THEN LET db1 == [db EXCEPT ![game.id] =
                        Cleared(Matchup(@, teamHome, teamAway, seedHome, seedAway))]
         IN  ClearRound(ClearRound(db1, "super_bowl"), "divisional")
    ELSE IF ~game.is_actual_matchup
    THEN [db EXCEPT ![game.id] = Matchup(@, teamHome, teamAway, seedHome, seedAway)]
    ELSE db

updateConferenceGame(db, game, teamHome, teamAway, seedHome, seedAway) ==
    IF matchupChanged(game, teamHome, teamAway)
    THEN LET db1 == [db EXCEPT ![game.id] =
                        Cleared(Matchup(@, teamHome, teamAway, seedHome, seedAway))]
         IN  ClearRound(db1, "super_bowl")
    ELSE IF ~game.is_actual_matchup
    THEN [db EXCEPT ![game.id] = Matchup(@, teamHome, teamAway, seedHome, seedAway)]
    ELSE db

updateSuperBowlGame(db, game, teamHome, teamAway, seedHome, seedAway) ==
    IF matchupChanged(game, teamHome, teamAway)
    THEN [db EXCEPT ![game.id] =
            Cleared(Matchup(@, teamHome, teamAway, seedHome, seedAway))]
    ELSE IF ~game.is_actual_matchup
    THEN [db EXCEPT ![game.id] = Matchup(@, teamHome, teamAway, seedHome, seedAway)]
    ELSE db

\* seeds.find(s => s.conference === c && s.seed === 1).team_abbr
ByeTeam(sds, conference) ==
    sds[FirstIndex({k \in 1..Len(sds) :
                      sds[k].conference = conference /\ sds[k].seed = 1})].team_abbr

\* variant: the two winners are taken in game order, without the sort
ReseedConferenceChampionshipInGameOrder(db, sds, divGames, confGame) ==
    IF \A i \in 1..Len(divGames) : divGames[i].winner # NULL
    THEN LET w == WinnerEntries(sds, divGames)
         IN  updateConferenceGame(db, confGame, w[1].team, w[2].team, w[1].seed, w[2].seed)
    ELSE db

\* variant: the two champions are written the other way round
ReseedSuperBowlSwapped(db, sds, conferenceGames, superBowlGames) ==
    IF isRoundComplete(conferenceGames) /\ Len(superBowlGames) > 0
    THEN LET afcChampion == conferenceGames[1].winner
             nfcChampion == conferenceGames[2].winner
         IN  updateSuperBowlGame(db, superBowlGames[1], nfcChampion, afcChampion,
                                 getSeedForTeam(sds, nfcChampion), getSeedForTeam(sds, afcChampion))
    ELSE db

\* variant: when either pair of the conference changed, both of its divisional
\* games are rewritten and cleared
ReseedConferenceDivisionalBoth(db, sds, conference, wcGames, first, second) ==
    IF \A i \in 1..Len(wcGames) : wcGames[i].winner # NULL
    THEN LET w       == Winners(sds, wcGames)
             changed == \/ matchupChanged(first, ByeTeam(sds, conference), w[3].team)
                        \/ matchupChanged(second, w[1].team, w[2].team)
             db1     == IF changed
                        THEN updateDivisionalGameAlways(db, first, ByeTeam(sds, conference), w[3].team, 1, w[3].seed)
                        ELSE updateDivisionalGame(db, first, ByeTeam(sds, conference), w[3].team, 1, w[3].seed)
         IN  IF changed
             THEN updateDivisionalGameAlways(db1, second, w[1].team, w[2].team, w[1].seed, w[2].seed)
             ELSE updateDivisionalGame(db1, second, w[1].team, w[2].team, w[1].seed, w[2].seed)
    ELSE db

\* one conference's divisional re-seeding: wcGames its three wild card games,
\* first and second its two divisional games as read at the start of the run
ReseedConferenceDivisional(db, sds, conference, wcGames, first, second) ==
    IF \A i \in 1..Len(wcGames) : wcGames[i].winner # NULL
    THEN LET w   == Winners(sds, wcGames)
             db1 == updateDivisionalGame(db, first, ByeTeam(sds, conference), w[3].team, 1, w[3].seed)
         IN  updateDivisionalGame(db1, second, w[1].team, w[2].team, w[1].seed, w[2].seed)
    ELSE db

ReseedDivisional(db, sds, wildCardGames, divisionalGames) ==
    IF isRoundComplete(wildCardGames)
    THEN LET afc == SelectSeq(wildCardGames, LAMBDA g : g.game_number >= 1 /\ g.game_number <= 3)
             nfc == SelectSeq(wildCardGames, LAMBDA g : g.game_number >= 4 /\ g.game_number <= 6)
             db1 == ReseedConferenceDivisional(db, sds, "AFC", afc, divisionalGames[1], divisionalGames[2])
         IN  ReseedConferenceDivisional(db1, sds, "NFC", nfc, divisionalGames[3], divisionalGames[4])
    ELSE db

ReseedConferenceChampionship(db, sds, divGames, confGame) ==
    IF \A i \in 1..Len(divGames) : divGames[i].winner # NULL
    THEN LET w == Winners(sds, divGames)
         IN  updateConferenceGame(db, confGame, w[1].team, w[2].team, w[1].seed, w[2].seed)
    ELSE db

ReseedConference(db, sds, divisionalGames, conferenceGames) ==
    IF isRoundComplete(divisionalGames)
    THEN LET afc == SelectSeq(divisionalGames, LAMBDA g : g.game_number >= 1 /\ g.game_number <= 2)
             nfc == SelectSeq(divisionalGames, LAMBDA g : g.game_number >= 3 /\ g.game_number <= 4)
             db1 == ReseedConferenceChampionship(db, sds, afc, conferenceGames[1])
         IN  ReseedConferenceChampionship(db1, sds, nfc, conferenceGames[2])
    ELSE db

ReseedSuperBowl(db, sds, conferenceGames, superBowlGames) ==
    IF isRoundComplete(conferenceGames) /\ Len(superBowlGames) > 0
    THEN LET afcChampion == conferenceGames[1].winner
             nfcChampion == conferenceGames[2].winner
         IN  updateSuperBowlGame(db, superBowlGames[1], afcChampion, nfcChampion,
                                 getSeedForTeam(sds, afcChampion), getSeedForTeam(sds, nfcChampion))
    ELSE db

\* every round is computed from the rows read once at the start of the run
reseedPlayoffBracket(db, sds) ==
    LET wildCardGames   == RoundGames(db, "wild_card")
        divisionalGames == RoundGames(db, "divisional")
        conferenceGames == RoundGames(db, "conference")
        superBowlGames  == RoundGames(db, "super_bowl")
        db1 == ReseedDivisional(db, sds, wildCardGames, divisionalGames)
        db2 == ReseedConference(db1, sds, divisionalGames, conferenceGames)
    IN  ReseedSuperBowl(db2, sds, conferenceGames, superBowlGames)

----------------------------------------------------------------------------
(* updateGameWinner *)

\* UPDATE games SET winner = ?, completed = 1 WHERE id = ?
WriteWinner(db, gameId, winner) ==
    [db EXCEPT ![gameId] = [@ EXCEPT !.winner = winner, !.completed = TRUE]]

\* variant: a call on a game that is already completed clears the winners of
\* the later rounds, whether the winner differs or not
updateGameWinnerAsChange(db, sds, gameId, winner) ==
    IF gameId \notin DOMAIN db
    THEN db
    ELSE LET written == WriteWinner(db, gameId, winner)
             later   == [i \in DOMAIN db |->
                            IF db[gameId].completed /\ i > gameId
                               /\ written[i].round # written[gameId].round
                            THEN Cleared(written[i]) ELSE written[i]]
         IN  reseedPlayoffBracket(later, sds)

\* the table when updateGameWinner(gameId, winner) returns
updateGameWinner(db, sds, gameId, winner) ==
    IF gameId \notin DOMAIN db
    THEN db
    ELSE reseedPlayoffBracket(WriteWinner(db, gameId, winner), sds)

\* variant: the call reports success whether the game exists or not
OutcomeWithoutLookup(db, gameId, winner) == "ok"

\* what the call reports
Outcome(db, gameId, winner) ==
    IF gameId \notin DOMAIN db THEN "Game not found" ELSE "ok"

\* the wild card games decided for another team than the home team
WildCardUpsets(db) ==
    Cardinality({i \in DOMAIN db :
        db[i].round = "wild_card" /\ db[i].winner \notin {NULL, db[i].team_home}})

IsTeamOf(g, team) == team = g.team_home \/ team = g.team_away

IsRewrite(g, winner) == g.winner # NULL /\ g.winner # winner

IsDetour(g, winner) ==
    IsRewrite(g, winner) \/ ~IsTeamOf(g, winner) \/ ~g.is_actual_matchup

\* history of the last call: whether its winner was one of the game's teams, and
\* whether the game was undecided, decided for the same team or for another one
NoCall == [kind |-> "none", teamOf |-> TRUE]

CallRecord(g, winner) ==
    [kind   |-> IF g.winner = NULL THEN "new"
                ELSE IF g.winner = winner THEN "same" ELSE "rewrite",
     teamOf |-> IsTeamOf(g, winner)]

\* the winner names a call is tried with: the two buttons of the admin page
\* and a name the score feed may send
WinnerInputs(g) == {g.team_home, g.team_away, Unseeded}

----------------------------------------------------------------------------
(* updateGameWinner step by step: every await of the call is a step, and no
   statement of the call is inside a transaction *)

\* round of a row that was deleted: the row keeps its position, so that an id
\* stays a position of the table, and is in no round
Deleted == "deleted"

Present(db, gameId) == gameId \in DOMAIN db /\ db[gameId].round # Deleted

\* DELETE FROM games WHERE id = ?
deleteGame(db, gameId) == [db EXCEPT ![gameId].round = Deleted]

\* the UPDATE statements a re-seeding run issues, in order, and whether the run
\* ends in a TypeError after them
NoWrites == [writes |-> <<>>, throws |-> FALSE]

Throws == [writes |-> <<>>, throws |-> TRUE]

\* the statements of one part of the run followed by those of the next
Then(first, next) ==
    IF first.throws THEN first
    ELSE [writes |-> first.writes \o next.writes, throws |-> next.throws]

MatchupWrite(game, teamHome, teamAway, seedHome, seedAway, clear) ==
    [op |-> "matchup", id |-> game.id, round |-> game.round,
     team_home |-> teamHome, team_away |-> teamAway,
     seed_home |-> seedHome, seed_away |-> seedAway, clear |-> clear]

ClearWrite(round) ==
    [op |-> "clear", id |-> 0, round |-> round,
     team_home |-> TBD, team_away |-> TBD,
     seed_home |-> NullSeed, seed_away |-> NullSeed, clear |-> TRUE]

\* the statements of updateDivisionalGame / updateConferenceGame /
\* updateSuperBowlGame on the k-th row of roundGames as read at the start of
\* the run; a missing row is undefined, and reading its team_home throws
UpdateWrites(roundGames, k, teamHome, teamAway, seedHome, seedAway) ==
    IF k > Len(roundGames) THEN Throws
    ELSE LET game == roundGames[k]
         IN  IF matchupChanged(game, teamHome, teamAway)
             THEN [writes |-> <<MatchupWrite(game, teamHome, teamAway, seedHome, seedAway, TRUE)>>
                              \o (IF game.round = "divisional"
                                  THEN <<ClearWrite("conference"), ClearWrite("super_bowl")>>
                                  ELSE IF game.round = "conference"
                                  THEN <<ClearWrite("super_bowl")>>
                                  ELSE <<>>),
                   throws |-> FALSE]
             ELSE IF ~game.is_actual_matchup
             THEN [writes |-> <<MatchupWrite(game, teamHome, teamAway, seedHome, seedAway, FALSE)>>,
                   throws |-> FALSE]
             ELSE NoWrites

\* one conference's divisional re-seeding; without a first seed or with fewer
\* than three winners the matchups cannot be built
ConferenceDivisionalWrites(sds, conference, wcGames, divisionalGames, first) ==
    LET w   == Winners(sds, wcGames)
        bye == FirstIndex({k \in 1..Len(sds) :
                             sds[k].conference = conference /\ sds[k].seed = 1})
    IN  IF bye = 0 \/ Len(w) < 3 THEN Throws
        ELSE Then(UpdateWrites(divisionalGames, first, sds[bye].team_abbr, w[3].team, 1, w[3].seed),
                  UpdateWrites(divisionalGames, first + 1, w[1].team, w[2].team, w[1].seed, w[2].seed))

DivisionalWrites(sds, wildCardGames, divisionalGames) ==
    IF isRoundComplete(wildCardGames)
    THEN LET afc == SelectSeq(wildCardGames, LAMBDA g : g.game_number >= 1 /\ g.game_number <= 3)
             nfc == SelectSeq(wildCardGames, LAMBDA g : g.game_number >= 4 /\ g.game_number <= 6)
         IN  Then(ConferenceDivisionalWrites(sds, "AFC", afc, divisionalGames, 1),
                  ConferenceDivisionalWrites(sds, "NFC", nfc, divisionalGames, 3))
    ELSE NoWrites

ConferenceChampionshipWrites(sds, divGames, conferenceGames, k) ==
    LET w == Winners(sds, divGames)
    IN  IF Len(w) < 2 THEN Throws
        ELSE UpdateWrites(conferenceGames, k, w[1].team, w[2].team, w[1].seed, w[2].seed)

ConferenceWrites(sds, divisionalGames, conferenceGames) ==
    IF isRoundComplete(divisionalGames)
    THEN LET afc == SelectSeq(divisionalGames, LAMBDA g : g.game_number >= 1 /\ g.game_number <= 2)
             nfc == SelectSeq(divisionalGames, LAMBDA g : g.game_number >= 3 /\ g.game_number <= 4)
         IN  Then(ConferenceChampionshipWrites(sds, afc, conferenceGames, 1),
                  ConferenceChampionshipWrites(sds, nfc, conferenceGames, 2))
    ELSE NoWrites

SuperBowlWrites(sds, conferenceGames, superBowlGames) ==
    IF isRoundComplete(conferenceGames) /\ Len(superBowlGames) > 0
    THEN IF Len(conferenceGames) < 2 THEN Throws
         ELSE UpdateWrites(superBowlGames, 1, conferenceGames[1].winner, conferenceGames[2].winner,
                           getSeedForTeam(sds, conferenceGames[1].winner),
                           getSeedForTeam(sds, conferenceGames[2].winner))
    ELSE NoWrites

\* the statements of reseedPlayoffBracket for the rows db read at its start
ReseedWrites(db, sds) ==
    LET wildCardGames   == RoundGames(db, "wild_card")
        divisionalGames == RoundGames(db, "divisional")
        conferenceGames == RoundGames(db, "conference")
        superBowlGames  == RoundGames(db, "super_bowl")
    IN  Then(Then(DivisionalWrites(sds, wildCardGames, divisionalGames),
                  ConferenceWrites(sds, divisionalGames, conferenceGames)),
             SuperBowlWrites(sds, conferenceGames, superBowlGames))

\* one UPDATE statement on the table as it is now
ApplyWrite(db, w) ==
    IF w.op = "clear" THEN ClearRound(db, w.round)
    ELSE IF ~Present(db, w.id) THEN db
    ELSE [db EXCEPT ![w.id] =
            IF w.clear
            THEN Cleared(Matchup(@, w.team_home, w.team_away, w.seed_home, w.seed_away))
            ELSE Matchup(@, w.team_home, w.team_away, w.seed_home, w.seed_away)]

RECURSIVE ApplyWrites(_, _)
ApplyWrites(db, writes) ==
    IF writes = <<>> THEN db
    ELSE ApplyWrites(ApplyWrite(db, Head(writes)), Tail(writes))

\* a call of updateGameWinner in flight: where it is, its arguments, the table
\* when it was started and the statements it still has to issue
Idle ==
    [pc |-> "idle", gameId |-> 0, winner |-> NULL, base |-> <<>>,
     writes |-> <<>>, throws |-> FALSE]

Callers == {1, 2}

\* no call is in flight and nothing was read
NoRun == [calls |-> [c \in Callers |-> Idle], seen |-> <<>>]

InFlight(c) == run.calls[c].pc \in {"find", "write", "read", "apply"}

----------------------------------------------------------------------------
(* The leaderboard (server/src/services/leaderboard.ts) *)

\* a lobby: its participants in the order they submitted, and the prediction
\* rows of their picks
NoLobby == [participants |-> <<>>, predictions |-> <<>>]

\* no leaderboard was computed by the last call
NoLeaderboard == [scoringType |-> "none", entries |-> <<>>]

ScoringTypes == {"simple", "weighted", "bracket", "both"}

\* variant: every round is worth one point
FLAT_POINTS(round) == 1

WEIGHTED_POINTS(round) ==
    CASE round = "wild_card"  -> 1
      [] round = "divisional" -> 2
      [] round = "conference" -> 3
      [] round = "super_bowl" -> 5

NoPoints == [simple |-> 0, weighted |-> 0, isCorrect |-> FALSE]

\* variant: a correct winner scores only when the predicted opponent is one
\* of the two teams of the game
calculatePointsMatchupOnly(game, prediction) ==
    IF ~game.completed \/ game.winner = NULL THEN NoPoints
    ELSE IF game.winner # prediction.predicted_winner THEN NoPoints
    ELSE IF prediction.predicted_opponent \notin {game.team_home, game.team_away} THEN NoPoints
    ELSE [simple |-> 1, weighted |-> WEIGHTED_POINTS(game.round), isCorrect |-> TRUE]

\* variant: only a pick that a decided game has proved wrong scores nothing
calculatePointsUnlessWrong(game, prediction) ==
    IF game.winner # NULL /\ game.winner # prediction.predicted_winner THEN NoPoints
    ELSE [simple |-> 1, weighted |-> WEIGHTED_POINTS(game.round), isCorrect |-> TRUE]

calculatePoints(game, prediction) ==
    IF ~game.completed \/ game.winner = NULL THEN NoPoints
    ELSE IF game.winner # prediction.predicted_winner THEN NoPoints
    ELSE [simple |-> 1, weighted |-> WEIGHTED_POINTS(game.round), isCorrect |-> TRUE]

NewEntry(participantId) ==
    [participantId |-> participantId, simpleScore |-> 0, weightedScore |-> 0,
     correctPicks |-> 0, totalPicks |-> 0]

\* the loop over the prediction rows: a row whose game is missing is skipped
RECURSIVE ScorePredictions(_, _, _)
ScorePredictions(db, predictions, board) ==
    IF predictions = <<>> THEN board
    ELSE LET prediction == Head(predictions)
             entry      == board[prediction.participant_id]
             points     == calculatePoints(db[prediction.game_id], prediction)
             counted    == [entry EXCEPT !.totalPicks = @ + 1]
             scored     == [counted EXCEPT !.correctPicks  = @ + 1,
                                           !.simpleScore   = @ + points.simple,
                                           !.weightedScore = @ + points.weighted]
         IN  IF prediction.game_id \notin DOMAIN db
             THEN ScorePredictions(db, Tail(predictions), board)
             ELSE ScorePredictions(db, Tail(predictions),
                     [board EXCEPT ![prediction.participant_id] =
                         IF points.isCorrect THEN scored ELSE counted])

ScoreOf(entry, field) ==
    IF field = "simpleScore" THEN entry.simpleScore ELSE entry.weightedScore

\* variant: the entries are returned in the order of the participants
InParticipantOrder(entries, field) == entries

\* Array.prototype.sort((a, b) => b[field] - a[field]): descending and stable
SortDescending(entries, field) ==
    LET ahead(i) == Cardinality({j \in 1..Len(entries) :
                        \/ ScoreOf(entries[j], field) > ScoreOf(entries[i], field)
                        \/ ScoreOf(entries[j], field) = ScoreOf(entries[i], field) /\ j < i})
    IN  [k \in 1..Len(entries) |->
            entries[CHOOSE i \in 1..Len(entries) : ahead(i) = k - 1]]

calculateLeaderboard(db, lob, scoringType) ==
    LET ids     == {lob.participants[i] : i \in 1..Len(lob.participants)}
        board   == ScorePredictions(db, lob.predictions, [id \in ids |-> NewEntry(id)])
        entries == [i \in 1..Len(lob.participants) |-> board[lob.participants[i]]]
    IN  IF scoringType = "simple" THEN SortDescending(entries, "simpleScore")
        ELSE IF scoringType = "weighted" THEN SortDescending(entries, "weightedScore")
        ELSE SortDescending(entries, "simpleScore")

----------------------------------------------------------------------------
(* The state machine *)

Init ==
    /\ seeds = SeedRows
    /\ games = generatePlayoffGamesFromSeeds(SeedRows)
    /\ result = "none"
    /\ last = NoCall
    /\ detours = 0
    /\ lobby = NoLobby
    /\ leaderboard = NoLeaderboard
    /\ run = NoRun

\* POST /game/:gameId/winner for a game of the season
RecordWinner(gameId, winner) ==
    /\ gameId \in DOMAIN games
    /\ games[gameId].round # "wild_card" => WildCardUpsets(games) <= MaxUpsets
    /\ IsDetour(games[gameId], winner) => detours < MaxDetours
    /\ detours' = IF IsDetour(games[gameId], winner) THEN detours + 1 ELSE detours
    /\ games' = updateGameWinner(games, seeds, gameId, winner)
    /\ result' = Outcome(games, gameId, winner)
    /\ last' = CallRecord(games[gameId], winner)
    /\ leaderboard' = NoLeaderboard
    /\ UNCHANGED <<seeds, lobby, run>>

\* POST /game/:gameId/winner for an id that is not in the games table
RecordWinnerMissing(winner) ==
    /\ detours < MaxDetours
    /\ detours' = detours + 1
    /\ games' = updateGameWinner(games, seeds, MissingGameId, winner)
    /\ result' = Outcome(games, MissingGameId, winner)
    /\ last' = [NoCall EXCEPT !.kind = "missing"]
    /\ leaderboard' = NoLeaderboard
    /\ UNCHANGED <<seeds, lobby, run>>

Next ==
    \/ \E gameId \in DOMAIN games : \E winner \in WinnerInputs(games[gameId]) :
          RecordWinner(gameId, winner)
    \/ RecordWinnerMissing(Unseeded)

Spec == Init /\ [][Next]_vars

\* the calls of the admin page alone: the winner is the home or the away team
\* the game has at the time of the call
NextValid ==
    \E gameId \in DOMAIN games : \E winner \in {games[gameId].team_home, games[gameId].team_away} :
        RecordWinner(gameId, winner)

SpecValid == Init /\ [][NextValid]_vars

\* the admin page on the games that are not completed yet, placeholders
\* included: each game card has a button for its home and one for its away
\* team, whatever the card shows
RecordOpen(gameId, winner) ==
    /\ gameId \in DOMAIN games
    /\ ~games[gameId].completed
    /\ games' = updateGameWinner(games, seeds, gameId, winner)
    /\ result' = Outcome(games, gameId, winner)
    /\ last' = CallRecord(games[gameId], winner)
    /\ leaderboard' = NoLeaderboard
    /\ UNCHANGED <<seeds, lobby, run, detours>>

NextOpen ==
    \E gameId \in DOMAIN games : \E winner \in {games[gameId].team_home, games[gameId].team_away} :
        RecordOpen(gameId, winner)

SpecOpen == Init /\ [][NextOpen]_vars

\* a seed table in which one team identifier is seeded in both conferences:
\* setPlayoffSeed is keyed by (season, conference, seed) and takes any name
SharedNames == {<<2, 7>>, <<7, 2>>, <<4, 5>>}

SharedSeedRows(afcRank, nfcRank) ==
    [i \in 1..Len(SeedRows) |->
        IF SeedRows[i].conference = "NFC" /\ SeedRows[i].seed = nfcRank
        THEN [SeedRows[i] EXCEPT !.team_abbr = TeamName("AFC", afcRank)]
        ELSE SeedRows[i]]

InitShared ==
    /\ \E pair \in SharedNames : seeds = SharedSeedRows(pair[1], pair[2])
    /\ games = generatePlayoffGamesFromSeeds(seeds)
    /\ result = "none"
    /\ last = NoCall
    /\ detours = 0
    /\ lobby = NoLobby
    /\ leaderboard = NoLeaderboard
    /\ run = NoRun

SpecShared == InitShared /\ [][NextValid]_vars

\* the season played forward: a winner, one of its two teams, is recorded for
\* a game that shows an actual matchup and is not completed yet
RecordForward(gameId, winner) ==
    /\ games[gameId].is_actual_matchup
    /\ RecordOpen(gameId, winner)

NextForward ==
    \E gameId \in DOMAIN games : \E winner \in {games[gameId].team_home, games[gameId].team_away} :
        RecordForward(gameId, winner)

SpecForward == Init /\ [][NextForward]_vars

----------------------------------------------------------------------------
(* Generating the bracket of a season *)

\* the numbers of seeds a conference may have: none, one short, seven, more
SeedCounts == {0, 6} \cup (7..MaxSeeds)

\* a season without games, with any number of seeds in each conference
InitGenerate ==
    /\ \E afc \in SeedCounts : \E nfc \in SeedCounts : seeds = SeedTable(afc, nfc)
    /\ games = <<>>
    /\ result = "none"
    /\ last = NoCall
    /\ detours = 0
    /\ lobby = NoLobby
    /\ leaderboard = NoLeaderboard
    /\ run = NoRun

\* POST /:seasonId/seeds, after the seeds are stored: generatePlayoffGamesFromSeeds
GenerateBracket ==
    /\ games' = generateBracket(games, seeds).games
    /\ result' = generateBracket(games, seeds).error
    /\ last' = [NoCall EXCEPT !.kind =
                    IF \E i \in DOMAIN games : games[i].winner # NULL
                    THEN "regenerate" ELSE "generate"]
    /\ leaderboard' = NoLeaderboard
    /\ UNCHANGED <<seeds, detours, lobby, run>>

\* the home team is recorded as the winner of an undecided actual matchup
PlayHome(gameId) ==
    /\ ~IsDetour(games[gameId], games[gameId].team_home)
    /\ games[gameId].winner = NULL
    /\ RecordWinner(gameId, games[gameId].team_home)

NextGenerate ==
    \/ GenerateBracket
    \/ \E gameId \in DOMAIN games : PlayHome(gameId)

SpecGenerate == InitGenerate /\ [][NextGenerate]_vars

----------------------------------------------------------------------------
(* A lobby on the season: picks are submitted, games are played and the
   leaderboard is computed *)

Rounds == {"wild_card", "divisional", "conference", "super_bowl"}

\* the bracket in which every game went to the home team
RECURSIVE PlayChalk(_, _, _)
PlayChalk(db, sds, gameId) ==
    IF gameId > Len(db) THEN db
    ELSE PlayChalk(updateGameWinner(db, sds, gameId, db[gameId].team_home), sds, gameId + 1)

ChalkBracket == PlayChalk(generatePlayoffGamesFromSeeds(SeedRows), SeedRows, 1)

\* the picks a participant submits: per round, the home or the away teams of
\* the bracket in which the better seed always advances
Picks == [Rounds -> {"home", "away"}]

PredictionRows(participantId, picks) ==
    [gameId \in 1..Len(ChalkBracket) |->
        [participant_id   |-> participantId,
         game_id          |-> gameId,
         predicted_winner |-> IF picks[ChalkBracket[gameId].round] = "home"
                              THEN ChalkBracket[gameId].team_home
                              ELSE ChalkBracket[gameId].team_away,
         predicted_opponent |-> IF picks[ChalkBracket[gameId].round] = "home"
                                THEN ChalkBracket[gameId].team_away
                                ELSE ChalkBracket[gameId].team_home]]

\* addParticipant and one addPrediction per game of the season
SubmitPredictions(picks) ==
    /\ Len(lobby.participants) < MaxParticipants
    /\ Len(ChalkBracket) = Len(games)
    /\ lobby' = [participants |-> Append(lobby.participants, Len(lobby.participants) + 1),
                 predictions  |-> lobby.predictions
                                  \o PredictionRows(Len(lobby.participants) + 1, picks)]
    /\ leaderboard' = NoLeaderboard
    /\ UNCHANGED <<games, seeds, result, last, detours, run>>

\* the games are decided in the order of the schedule; the first slot of a
\* round may go to the away team
PlayGame(gameId, winner) ==
    /\ games[gameId].winner = NULL
    /\ \A earlier \in 1..(gameId - 1) : games[earlier].winner # NULL
    /\ ~IsDetour(games[gameId], winner)
    /\ winner = games[gameId].team_home \/ games[gameId].game_number = 1
    /\ RecordWinner(gameId, winner)

\* GET of the leaderboard of the lobby
CalculateLeaderboard(scoringType) ==
    /\ leaderboard' = [scoringType |-> scoringType,
                       entries     |-> calculateLeaderboard(games, lobby, scoringType)]
    /\ UNCHANGED <<games, seeds, result, last, detours, lobby, run>>

NextLobby ==
    \/ \E picks \in Picks : SubmitPredictions(picks)
    \/ \E gameId \in DOMAIN games :
          \E winner \in {games[gameId].team_home, games[gameId].team_away} :
              PlayGame(gameId, winner)
    \/ \E scoringType \in ScoringTypes : CalculateLeaderboard(scoringType)

SpecLobby == Init /\ [][NextLobby]_vars

----------------------------------------------------------------------------
(* A lobby whose picks go stale: rows of an earlier bracket, and results that
   a changed winner clears *)

\* the sheets that pick the same side in every round
PlainPicks == {picks \in Picks : \A r, s \in Rounds : picks[r] = picks[s]}

\* the rows of a participant who picked the home teams of the bracket that was
\* generated before this one: ids are never reused, so none of them is the id
\* of a game of the season now
StaleRows(participantId) ==
    [k \in 1..Len(ChalkBracket) |->
        [participant_id   |-> participantId,
         game_id          |-> k - Len(ChalkBracket),
         predicted_winner |-> ChalkBracket[k].team_home,
         predicted_opponent |-> ChalkBracket[k].team_away]]

SubmitStale ==
    /\ Len(lobby.participants) < MaxParticipants
    /\ lobby' = [participants |-> Append(lobby.participants, Len(lobby.participants) + 1),
                 predictions  |-> lobby.predictions
                                  \o StaleRows(Len(lobby.participants) + 1)]
    /\ leaderboard' = NoLeaderboard
    /\ UNCHANGED <<games, seeds, result, last, detours, run>>

\* addParticipant alone: every row of the sheet lacks a game id or a winner
\* and is skipped
SubmitNothing ==
    /\ Len(lobby.participants) < MaxParticipants
    /\ lobby' = [lobby EXCEPT !.participants = Append(@, Len(@) + 1)]
    /\ leaderboard' = NoLeaderboard
    /\ UNCHANGED <<games, seeds, result, last, detours, run>>

\* the other team of a game
Opponent(g, team) == IF team = g.team_home THEN g.team_away ELSE g.team_home

\* the decided game in the first slot of a round is given to its other team
ChangeWinner(gameId) ==
    /\ games[gameId].winner # NULL
    /\ games[gameId].game_number = 1
    /\ IsTeamOf(games[gameId], games[gameId].winner)
    /\ RecordWinner(gameId, Opponent(games[gameId], games[gameId].winner))

NextPending ==
    \/ \E picks \in PlainPicks : SubmitPredictions(picks)
    \/ SubmitStale
    \/ SubmitNothing
    \/ \E gameId \in DOMAIN games :
          \E winner \in {games[gameId].team_home, games[gameId].team_away} :
              PlayGame(gameId, winner)
    \/ \E gameId \in DOMAIN games : ChangeWinner(gameId)
    \/ \E scoringType \in ScoringTypes : CalculateLeaderboard(scoringType)

SpecPending == Init /\ [][NextPending]_vars


----------------------------------------------------------------------------
(* Calls of updateGameWinner taken one await at a time *)

Call(c) == run.calls[c]

\* updateGameWinner(gameId, winner) is called
StartCall(c, gameId, winner) ==
    /\ ~InFlight(c)
    /\ run' = [calls |-> [run.calls EXCEPT ![c] =
                            [Idle EXCEPT !.pc = "find", !.gameId = gameId,
                                         !.winner = winner, !.base = games]],
               seen  |-> <<>>]
    /\ leaderboard' = NoLeaderboard
    /\ UNCHANGED <<games, seeds, result, last, detours, lobby>>

\* const game = await getGameById(gameId); if (!game) throw
FindGame(c) ==
    /\ Call(c).pc = "find"
    /\ run' = [run EXCEPT !.calls[c].pc =
                  IF Present(games, Call(c).gameId) THEN "write" ELSE "thrown"]
    /\ result' = IF Present(games, Call(c).gameId) THEN result ELSE "Game not found"
    /\ UNCHANGED <<games, seeds, last, detours, lobby, leaderboard>>

\* await runExec('UPDATE games SET winner = ?, completed = 1 WHERE id = ?')
WriteWinnerStep(c) ==
    /\ Call(c).pc = "write"
    /\ games' = IF Present(games, Call(c).gameId)
                THEN WriteWinner(games, Call(c).gameId, Call(c).winner)
                ELSE games
    /\ run' = [run EXCEPT !.calls[c].pc = "read"]
    /\ UNCHANGED <<seeds, result, last, detours, lobby, leaderboard>>

\* the reads at the start of reseedPlayoffBracket: everything the run writes
\* is decided from these rows
ReadGames(c) ==
    /\ Call(c).pc = "read"
    /\ run' = [run EXCEPT !.calls[c].pc = "apply",
                          !.calls[c].writes = ReseedWrites(games, seeds).writes,
                          !.calls[c].throws = ReseedWrites(games, seeds).throws]
    /\ UNCHANGED <<games, seeds, result, last, detours, lobby, leaderboard>>

\* the next UPDATE of the run
ApplyNext(c) ==
    /\ Call(c).pc = "apply"
    /\ Call(c).writes # <<>>
    /\ games' = ApplyWrite(games, Head(Call(c).writes))
    /\ run' = [run EXCEPT !.calls[c].writes = Tail(@)]
    /\ UNCHANGED <<seeds, result, last, detours, lobby, leaderboard>>

\* the call returns, or the TypeError of the run reaches the caller
Finish(c) ==
    /\ Call(c).pc = "apply"
    /\ Call(c).writes = <<>>
    /\ run' = [run EXCEPT !.calls[c].pc = IF Call(c).throws THEN "thrown" ELSE "returned"]
    /\ result' = IF Call(c).throws THEN "TypeError" ELSE "ok"
    /\ UNCHANGED <<games, seeds, last, detours, lobby, leaderboard>>

Finished(c) == Call(c).pc \in {"returned", "thrown"}

DeletedGames(db) == {i \in DOMAIN db : db[i].round = Deleted}

\* DELETE /:seasonId/games/:gameId
DeleteGame(gameId) ==
    /\ \A c \in Callers : ~InFlight(c)
    /\ Present(games, gameId)
    /\ Cardinality(DeletedGames(games)) < MaxDeleted
    /\ games' = deleteGame(games, gameId)
    /\ result' = "ok"
    /\ last' = [NoCall EXCEPT !.kind = "delete"]
    /\ leaderboard' = NoLeaderboard
    /\ UNCHANGED <<seeds, detours, lobby, run>>

\* GET /:id/games while a call is in flight
ReadBracket ==
    /\ \E c \in Callers : InFlight(c)
    /\ run' = [run EXCEPT !.seen = games]
    /\ UNCHANGED <<games, seeds, result, last, detours, lobby, leaderboard>>

\* the next game of the schedule that has both teams goes to its home team
NextHomeWin(gameId) ==
    /\ Present(games, gameId)
    /\ games[gameId].winner = NULL
    /\ games[gameId].team_home # TBD
    /\ \A earlier \in 1..(gameId - 1) :
          Present(games, earlier) => games[earlier].winner # NULL

\* one caller at a time, on a season from which a game may have been deleted
NextSteps ==
    \/ \E gameId \in DOMAIN games : DeleteGame(gameId)
    \/ \E gameId \in DOMAIN games :
          /\ NextHomeWin(gameId) \/ ~Present(games, gameId)
          /\ StartCall(1, gameId, games[gameId].team_home)
    \/ FindGame(1)
    \/ WriteWinnerStep(1)
    \/ ReadGames(1)
    \/ ApplyNext(1)
    \/ Finish(1)
    \/ ReadBracket

SpecSteps == Init /\ [][NextSteps]_vars

\* the bracket after the first k games of the schedule went to the home team
RECURSIVE PlayedThrough(_)
PlayedThrough(k) ==
    IF k = 0 THEN generatePlayoffGamesFromSeeds(SeedRows)
    ELSE updateGameWinner(PlayedThrough(k - 1), SeedRows, k, PlayedThrough(k - 1)[k].team_home)

Stages == {5, 9, 13}

InitConcurrent ==
    /\ seeds = SeedRows
    /\ games \in {PlayedThrough(k) : k \in Stages}
    /\ result = "none"
    /\ last = NoCall
    /\ detours = 0
    /\ lobby = NoLobby
    /\ leaderboard = NoLeaderboard
    /\ run = NoRun

\* what the admin page can send for a game: one of its two teams
CallInputs(db) ==
    {<<gameId, winner>> \in (DOMAIN db) \X {db[i].team_home : i \in DOMAIN db}
                                        \cup (DOMAIN db) \X {db[i].team_away : i \in DOMAIN db} :
        /\ db[gameId].team_home # TBD
        /\ IsTeamOf(db[gameId], winner)}

\* two calls are started in the same turn of the event loop
StartPair(first, second) ==
    /\ \A c \in Callers : Call(c).pc = "idle"
    /\ run' = [calls |-> [c \in Callers |->
                            [Idle EXCEPT !.pc = "find",
                                         !.gameId = IF c = 1 THEN first[1] ELSE second[1],
                                         !.winner = IF c = 1 THEN first[2] ELSE second[2],
                                         !.base = games]],
               seen  |-> <<>>]
    /\ UNCHANGED <<games, seeds, result, last, detours, lobby, leaderboard>>

NextConcurrent ==
    \/ /\ \A c \in Callers : Call(c).pc = "idle"
       /\ \E first, second \in CallInputs(games) : StartPair(first, second)
    \/ \E c \in Callers :
          \/ FindGame(c)
          \/ WriteWinnerStep(c)
          \/ ReadGames(c)
          \/ ApplyNext(c)
          \/ Finish(c)

SpecConcurrent == InitConcurrent /\ [][NextConcurrent]_vars

----------------------------------------------------------------------------
(* Vocabulary of the properties *)

GameIds == DOMAIN games
InRound(round) == {i \in GameIds : games[i].round = round}

\* the conference a game belongs to, by its slot (the final belongs to none)
ConferenceOf(g) ==
    CASE g.round = "wild_card"  -> IF g.game_number <= 3 THEN "AFC" ELSE "NFC"
      [] g.round = "divisional" -> IF g.game_number <= 2 THEN "AFC" ELSE "NFC"
      [] g.round = "conference" -> IF g.game_number = 1 THEN "AFC" ELSE "NFC"
      [] OTHER -> "none"

OtherConference(conference) == IF conference = "AFC" THEN "NFC" ELSE "AFC"

OfConference(round, conference) ==
    {i \in InRound(round) : ConferenceOf(games[i]) = conference}

\* the id of the game of a round that has slot number k of its conference
Slot(round, conference, k) ==
    CHOOSE i \in OfConference(round, conference) :
        Cardinality({j \in OfConference(round, conference) :
                        games[j].game_number < games[i].game_number}) = k - 1

RoundBelow(round) ==
    CASE round = "divisional" -> "wild_card"
      [] round = "conference" -> "divisional"
      [] round = "super_bowl" -> "conference"

RoundsAfter(round) ==
    CASE round = "wild_card"  -> {"divisional", "conference", "super_bowl"}
      [] round = "divisional" -> {"conference", "super_bowl"}
      [] round = "conference" -> {"super_bowl"}
      [] OTHER -> {}

LaterRounds == {"divisional", "conference", "super_bowl"}
LaterGames == {i \in GameIds : games[i].round \in LaterRounds}

Undecided(g) == g.winner = NULL /\ ~g.completed
RoundDecided(round) == \A i \in InRound(round) : Decided(games[i])
Pair(g) == <<g.team_home, g.team_away>>
IsPlaceholder(g) ==
    /\ Pair(g) = <<TBD, TBD>> /\ ~g.is_actual_matchup
    /\ g.seed_home = NullSeed /\ g.seed_away = NullSeed
\* the fields the re-seeding engine owns
MatchupFields(g) ==
    <<g.team_home, g.team_away, g.seed_home, g.seed_away, g.is_actual_matchup>>

\* the rank of a team in the seed list of a conference, 0 when it has none
RankIn(conference, team) ==
    LET rows == {k \in 1..Len(seeds) :
                    seeds[k].conference = conference /\ seeds[k].team_abbr = team}
    IN  IF rows = {} THEN 0 ELSE seeds[CHOOSE k \in rows : TRUE].seed

\* the team a conference seeds first
RankOne(conference) ==
    seeds[CHOOSE k \in 1..Len(seeds) :
            seeds[k].conference = conference /\ seeds[k].seed = 1].team_abbr

\* the recorded winners of the decided games of a round in a conference
WinnersOf(round, conference) ==
    {games[i].winner : i \in {j \in OfConference(round, conference) : Decided(games[j])}}

\* the teams that may stand in a game of a later round: the winners of the
\* decided games of the round below that feed it, and the top seed of the
\* conference for the home side of its first divisional game
Advancing(g) ==
    CASE g.round = "divisional" ->
            WinnersOf("wild_card", ConferenceOf(g)) \cup
            (IF g.id = Slot("divisional", ConferenceOf(g), 1)
             THEN {RankOne(ConferenceOf(g))} ELSE {})
      [] g.round = "conference" -> WinnersOf("divisional", ConferenceOf(g))
      [] g.round = "super_bowl" ->
            WinnersOf("conference", "AFC") \cup WinnersOf("conference", "NFC")

ShowsAdvancing(g) == g.team_home \in Advancing(g) /\ g.team_away \in Advancing(g)

----------------------------------------------------------------------------
(* Properties *)

\* C1 Cascade invalidation: whenever a call writes a different team pair into
\* a divisional, conference-round or final game, that game and every game of
\* every later round have winner NULL and completed false when the call returns.
C1_CascadeInvalidation ==
    [][\A i \in LaterGames :
          Pair(games'[i]) # Pair(games[i])
          => /\ Undecided(games'[i])
             /\ \A j \in GameIds :
                   games[j].round \in RoundsAfter(games[i].round)
                   => Undecided(games'[j])]_vars

\* a decided wild card game was given another winner while the conference
\* round was set but the final was not: a divisional game got a new pair and
\* stands undecided, and so do both conference-round games
C1_Witness ==
    /\ last.kind = "rewrite"
    /\ RoundDecided("wild_card")
    /\ \E d \in InRound("divisional") : games[d].is_actual_matchup /\ Undecided(games[d])
    /\ \E d \in InRound("divisional") : Decided(games[d])
    /\ \A c \in InRound("conference") : games[c].is_actual_matchup /\ Undecided(games[c])
    /\ \A f \in InRound("super_bowl") : ~games[f].is_actual_matchup

\* C2 as stated: every divisional, conference-round or final game that is an
\* actual matchup lists only teams that currently advance from the round below.
C2_ActualShowsAdvancing ==
    \A i \in LaterGames : games[i].is_actual_matchup => ShowsAdvancing(games[i])

\* C2 as the code has it: an actual matchup of a later round lists only teams
\* that currently advance from the round below whenever that round below is
\* decided in full, and then the games of a conference list all of them; while
\* a game of the round below is undecided the pair of an earlier run may remain.
C2_DecidedBelowShowsAdvancing ==
    \A i \in LaterGames :
        (games[i].is_actual_matchup /\ RoundDecided(RoundBelow(games[i].round)))
        => /\ ShowsAdvancing(games[i])
           /\ UNION {{games[j].team_home, games[j].team_away} :
                       j \in {k \in InRound(games[i].round) :
                                ConferenceOf(games[k]) = ConferenceOf(games[i])}}
              = UNION {Advancing(games[j]) :
                       j \in {k \in InRound(games[i].round) :
                                ConferenceOf(games[k]) = ConferenceOf(games[i])}}

\* a decided divisional game was given another winner after the final had been
\* set: its conference-round game got the new pair and stands undecided, the
\* other one is still decided
C2_Witness ==
    /\ last.kind = "rewrite"
    /\ RoundDecided("divisional")
    /\ \E c \in InRound("conference") : games[c].is_actual_matchup /\ Undecided(games[c])
    /\ \E c \in InRound("conference") : games[c].is_actual_matchup /\ Decided(games[c])
    /\ \A f \in InRound("super_bowl") : games[f].is_actual_matchup /\ Undecided(games[f])

\* a decided wild card game of a conference is given another winner while
\* every later round is decided
WildCardChange(conference) ==
    /\ \A r \in LaterRounds : RoundDecided(r)
    /\ \E i \in OfConference("wild_card", conference) :
          Decided(games[i]) /\ games'[i].winner # games[i].winner

\* the divisional games of the conference whose pair changed stand undecided
AffectedDivisionalCleared(conference) ==
    \A d \in OfConference("divisional", conference) :
        Pair(games'[d]) # Pair(games[d]) => Undecided(games'[d])

\* the wild card and divisional games of a conference are as they were
EarlyRoundsKept(conference) ==
    \A j \in OfConference("wild_card", conference) \cup OfConference("divisional", conference) :
        games'[j] = games[j]

\* C3 as stated: such a change clears the affected divisional games of the
\* conference, its conference-round game and the final, and leaves every game
\* of the other conference, its conference-round game included, as it was.
C3_OtherConferenceUntouched ==
    [][\A c \in {"AFC", "NFC"} :
          WildCardChange(c)
          => /\ AffectedDivisionalCleared(c)
             /\ \A j \in OfConference("conference", c) \cup InRound("super_bowl") :
                   Undecided(games'[j])
             /\ EarlyRoundsKept(OtherConference(c))
             /\ \A j \in OfConference("conference", OtherConference(c)) :
                   games'[j] = games[j]]_vars

\* C3 as the code has it: such a change clears the affected divisional games
\* of the conference, both conference-round games and the final; the wild card
\* and divisional games of the other conference are unchanged, and its
\* conference-round game keeps its teams, seeds and actual-matchup flag but
\* loses its winner and completed flag.
C3_OtherConferenceKeepsEarlyRounds ==
    [][\A c \in {"AFC", "NFC"} :
          WildCardChange(c)
          => /\ AffectedDivisionalCleared(c)
             /\ \A j \in InRound("conference") \cup InRound("super_bowl") :
                   Undecided(games'[j])
             /\ EarlyRoundsKept(OtherConference(c))
             /\ \A j \in OfConference("conference", OtherConference(c)) :
                   MatchupFields(games'[j]) = MatchupFields(games[j])]_vars

\* after every round was decided a wild card game was given another winner:
\* a divisional game of one conference stands undecided, the other
\* conference's are still decided, the conference round and the final are
\* undecided with their old pairs
C3_Witness ==
    /\ last.kind = "rewrite"
    /\ RoundDecided("wild_card")
    /\ \E c \in {"AFC", "NFC"} :
          /\ \E d \in OfConference("divisional", c) : Undecided(games[d])
          /\ \A d \in OfConference("divisional", OtherConference(c)) : Decided(games[d])
    /\ \A j \in InRound("conference") \cup InRound("super_bowl") :
          games[j].is_actual_matchup /\ Undecided(games[j])

\* C4 Idempotence: in every reachable state, recording again the winner that a
\* completed game already has leaves every game of the season as it is.
C4_Idempotence ==
    \A i \in GameIds :
        Decided(games[i]) => updateGameWinner(games, seeds, i, games[i].winner) = games

\* the last call recorded again the winner a game already had, in a bracket
\* whose later rounds are all decided
C4_Witness ==
    /\ last.kind = "same"
    /\ last.teamOf
    /\ \A r \in LaterRounds : RoundDecided(r)

\* C5 Round-level gating: a call changes the teams, seeds or actual-matchup
\* flag of a game of a later round only if, once its winner is written, every
\* game of the round below is completed with a winner (each of them was
\* decided before the call or is the game the call decides); and while a wild
\* card game is undecided all four divisional games are placeholders.
C5_RoundLevelGating ==
    [][/\ \A i \in LaterGames :
             MatchupFields(games'[i]) # MatchupFields(games[i])
             => \A j \in InRound(RoundBelow(games[i].round)) :
                   Decided(games[j]) \/ Decided(games'[j])
       /\ (\E w \in InRound("wild_card") : ~Decided(games'[w]))
          => \A d \in InRound("divisional") : IsPlaceholder(games'[d])]_vars

\* five of the six wild card games are decided and the divisional games are
\* still placeholders
C5_Witness ==
    /\ Cardinality({w \in InRound("wild_card") : Decided(games[w])}) = 5
    /\ \A d \in InRound("divisional") : IsPlaceholder(games[d])
    /\ last.kind = "new"

\* every wild card game is decided for one of its own two teams
WildCardOutcome ==
    /\ RoundDecided("wild_card")
    /\ \A w \in InRound("wild_card") : IsTeamOf(games[w], games[w].winner)

\* C6 Divisional re-seeding rule: when all six wild card games are decided (for
\* any of the 8 x 8 outcomes), divisional slot 1 of a conference is its top
\* seed at home against the worst-seeded of its three wild card winners, slot 2
\* is the other two winners with the better seed at home, the seed fields are
\* those ranks and both are actual matchups.
C6_DivisionalRule ==
    WildCardOutcome
    => \A c \in {"AFC", "NFC"} :
          LET W      == WinnersOf("wild_card", c)
              worst  == CHOOSE t \in W : \A u \in W : RankIn(c, u) <= RankIn(c, t)
              better == CHOOSE t \in W \ {worst} :
                           \A u \in W \ {worst} : RankIn(c, t) <= RankIn(c, u)
              other  == CHOOSE t \in W \ {worst} : t # better
          IN  /\ MatchupFields(games[Slot("divisional", c, 1)])
                   = <<RankOne(c), worst, 1, RankIn(c, worst), TRUE>>
              /\ MatchupFields(games[Slot("divisional", c, 2)])
                   = <<better, other, RankIn(c, better), RankIn(c, other), TRUE>>

\* a seventh seed won its wild card game and meets the top seed
C6_Witness ==
    /\ WildCardOutcome
    /\ \E c \in {"AFC", "NFC"} :
          /\ games[Slot("divisional", c, 1)].seed_away = 7
          /\ games[Slot("divisional", c, 2)].seed_home = 3

\* the bracket after the winners of wild card games ids, as games has them,
\* are recorded one after the other in db
RECURSIVE RecordInOrder(_, _)
RecordInOrder(db, ids) ==
    IF ids = <<>> THEN db
    ELSE RecordInOrder(updateGameWinner(db, seeds, Head(ids), games[Head(ids)].winner),
                       Tail(ids))

\* C7 Path independence: whatever the order of the calls and the winner changes
\* on the way, once all six wild card games are decided the teams, seeds and
\* actual-matchup flag of the four divisional games are those of the fresh
\* bracket in which the same six winners are recorded once each, in slot order.
C7_PathIndependence ==
    RoundDecided("wild_card")
    => LET direct == RecordInOrder(generatePlayoffGamesFromSeeds(seeds), <<1, 2, 3, 4, 5, 6>>)
       IN  \A d \in InRound("divisional") :
              MatchupFields(games[d]) = MatchupFields(direct[d])

\* a wild card winner was changed to the away team after the divisional round
\* had been set, and no later game is decided
C7_Witness ==
    /\ RoundDecided("wild_card")
    /\ last.kind = "rewrite"
    /\ last.teamOf
    /\ WildCardUpsets(games) = 1
    /\ \A i \in LaterGames : Undecided(games[i])
    /\ \A d \in InRound("divisional") : games[d].is_actual_matchup

\* C8 Conference-round rule: when all four divisional games are decided, the
\* conference-round game of a conference holds the winners of its two
\* divisional games, its seed fields are their ranks, the better seed is at
\* home and it is an actual matchup.
C8_ConferenceRule ==
    RoundDecided("divisional")
    => \A c \in {"AFC", "NFC"} :
          LET g == games[Slot("conference", c, 1)]
          IN  /\ {g.team_home, g.team_away} = WinnersOf("divisional", c)
              /\ g.seed_home = RankIn(c, g.team_home)
              /\ g.seed_away = RankIn(c, g.team_away)
              /\ (g.seed_home # NullSeed /\ g.seed_away # NullSeed /\ g.team_home # g.team_away)
                 => g.seed_home < g.seed_away
              /\ g.is_actual_matchup

\* the divisional round is decided and a conference-round game has the winner
\* of the second divisional game at home against the winner of the first
C8_Witness ==
    /\ RoundDecided("divisional")
    /\ \E c \in {"AFC", "NFC"} :
          /\ games[Slot("conference", c, 1)].team_home = games[Slot("divisional", c, 2)].winner
          /\ games[Slot("conference", c, 1)].team_away = games[Slot("divisional", c, 1)].winner
          /\ games[Slot("conference", c, 1)].seed_home \in 1..7
          /\ games[Slot("conference", c, 1)].seed_away \in 1..7

\* C9 Final rule: when both conference-round games are decided, the final has
\* the winner of conference-round game 1 at home, the winner of
\* conference-round game 2 away, and is an actual matchup.
C9_FinalRule ==
    RoundDecided("conference")
    => \A f \in InRound("super_bowl") :
          /\ games[f].team_home = games[Slot("conference", "AFC", 1)].winner
          /\ games[f].team_away = games[Slot("conference", "NFC", 1)].winner
          /\ games[f].is_actual_matchup

\* both conference-round games were decided between seeded teams and the
\* final is set
C9_Witness ==
    /\ RoundDecided("conference")
    /\ last.kind = "new"
    /\ \A c \in InRound("conference") : games[c].seed_home \in 1..7 /\ games[c].seed_away \in 1..7
    /\ \A f \in InRound("super_bowl") : games[f].is_actual_matchup /\ Undecided(games[f])

\* C10 as stated: a call whose winner is neither the home nor the away team of
\* the game reports a validation error and leaves every game unchanged.
C10_RejectsOtherTeam ==
    [][\A gameId \in GameIds : \A winner \in WinnerInputs(games[gameId]) :
          (RecordWinner(gameId, winner) /\ ~IsTeamOf(games[gameId], winner))
          => (games' = games /\ result' = "ValidationError")]_vars

\* C11 Winner validity: when every call names the home or the away team the
\* game has at the time, every game with a winner has its current home team or
\* its current away team as the winner.
C11_WinnerIsOneOfTeams ==
    \A i \in GameIds : games[i].winner # NULL => IsTeamOf(games[i], games[i].winner)

\* a wild card winner was changed after its divisional round was decided: a
\* divisional game was rewritten and lost its winner, another one kept it
C11_Witness ==
    /\ last.kind = "rewrite"
    /\ RoundDecided("wild_card")
    /\ \E d \in InRound("divisional") : games[d].is_actual_matchup /\ Undecided(games[d])
    /\ \E d \in InRound("divisional") : Decided(games[d]) /\ IsTeamOf(games[d], games[d].winner)

\* the last call generated the bracket
Generated == last.kind \in {"generate", "regenerate"}

\* each conference has exactly the seven seeds 1..7
SevenEach ==
    \A c \in {"AFC", "NFC"} :
        /\ Len(ConfSeeds(seeds, c)) = 7
        /\ {ConfSeeds(seeds, c)[k].seed : k \in 1..7} = 1..7

\* the slot numbers of the games of a round
SlotsOf(round) == {games[i].game_number : i \in InRound(round)}

\* C15 Shape of a generated bracket: from seven seeds per conference the call
\* succeeds and leaves exactly 13 games, 6 wild card games in slots 1-6, 4
\* divisional in slots 1-4, 2 conference-round in slots 1-2 and 1 final in slot
\* 1; the wild card games have seeds and are actual matchups, every other game
\* is a TBD placeholder without seeds, winner or completed flag.
C15_GeneratedShape ==
    (Generated /\ SevenEach)
    => /\ result = "ok"
       /\ Cardinality(GameIds) = 13
       /\ Cardinality(InRound("wild_card")) = 6 /\ SlotsOf("wild_card") = 1..6
       /\ Cardinality(InRound("divisional")) = 4 /\ SlotsOf("divisional") = 1..4
       /\ Cardinality(InRound("conference")) = 2 /\ SlotsOf("conference") = 1..2
       /\ Cardinality(InRound("super_bowl")) = 1 /\ SlotsOf("super_bowl") = {1}
       /\ \A i \in InRound("wild_card") :
             /\ games[i].is_actual_matchup
             /\ games[i].seed_home # NullSeed /\ games[i].seed_away # NullSeed
       /\ \A i \in LaterGames : IsPlaceholder(games[i]) /\ Undecided(games[i])

\* a bracket was generated for a season with seven seeds in each conference
C15_Witness ==
    /\ last.kind = "generate"
    /\ SevenEach
    /\ Len(games) = 13

\* the team a conference seeds at a rank
TeamAt(conference, rank) ==
    seeds[CHOOSE k \in 1..Len(seeds) :
            seeds[k].conference = conference /\ seeds[k].seed = rank].team_abbr

\* C16 Wild card pairings: a generated bracket has, for each conference, the
\* wild card games 2 v 7, 3 v 6 and 4 v 5 in this order of slots, the better
\* seed at home, the conference's first seed in none of them, one conference
\* in slots 1-3 and the other in slots 4-6.
C16_WildCardPairings ==
    (Generated /\ SevenEach)
    => \A c \in {"AFC", "NFC"} :
          /\ \A k \in 1..3 :
                LET g == games[Slot("wild_card", c, k)]
                IN  /\ g.game_number = (IF c = "AFC" THEN 0 ELSE 3) + k
                    /\ g.seed_home = k + 1 /\ g.seed_away = 8 - k
                    /\ g.seed_home < g.seed_away
                    /\ g.team_home = TeamAt(c, k + 1) /\ g.team_away = TeamAt(c, 8 - k)
          /\ \A i \in InRound("wild_card") : ~IsTeamOf(games[i], TeamAt(c, 1))
          /\ Cardinality(OfConference("wild_card", c)) = 3

\* a generated bracket whose first wild card slot is the second seed at home
\* to the seventh
C16_Witness ==
    /\ Generated
    /\ SevenEach
    /\ result = "ok"
    /\ \E i \in InRound("wild_card") :
          games[i].game_number = 1 /\ games[i].seed_home = 2 /\ games[i].seed_away = 7

\* C17 as stated: when a conference has another number of seeds than seven,
\* generating the bracket fails and leaves the games and the seeds unchanged.
C17_RequiresExactlySeven ==
    [][(GenerateBracket /\ ~SevenEach)
       => (result' # "ok" /\ games' = games /\ seeds' = seeds)]_vars

\* the rows of a games table without their ids
Bracket(db) ==
    {<<db[i].round, db[i].game_number, db[i].team_home, db[i].team_away,
       db[i].seed_home, db[i].seed_away, db[i].is_actual_matchup,
       db[i].winner, db[i].completed>> : i \in DOMAIN db}

\* C18 Idempotent regeneration: generating over the games a season has, decided
\* or re-seeded as they may be, gives the bracket that generating on the empty
\* season gives, 13 games without winners, and generating once more gives it again.
C18_Regeneration ==
    LET once  == generateBracket(games, seeds)
        fresh == generateBracket(<<>>, seeds)
        twice == generateBracket(once.games, seeds)
    IN  once.error = "ok"
        => /\ Bracket(once.games) = Bracket(fresh.games)
           /\ Len(once.games) = 13
           /\ \A i \in DOMAIN once.games : Undecided(once.games[i])
           /\ Bracket(twice.games) = Bracket(once.games)
           /\ Len(twice.games) = 13

\* a bracket with recorded winners was generated anew
C18_Witness ==
    /\ last.kind = "regenerate"
    /\ result = "ok"
    /\ Len(games) = 13
    /\ \A i \in GameIds : Undecided(games[i])

\* the prediction rows of a participant that are correct: the game exists, is
\* completed and has the predicted team as its winner
CorrectPicks(participantId, round) ==
    {k \in 1..Len(lobby.predictions) :
        /\ lobby.predictions[k].participant_id = participantId
        /\ lobby.predictions[k].game_id \in GameIds
        /\ games[lobby.predictions[k].game_id].round = round
        /\ games[lobby.predictions[k].game_id].completed
        /\ games[lobby.predictions[k].game_id].winner # NULL
        /\ games[lobby.predictions[k].game_id].winner = lobby.predictions[k].predicted_winner}

Correct(participantId, round) == Cardinality(CorrectPicks(participantId, round))

EntryIndexes == 1..Len(leaderboard.entries)

C20_BothTieBreak ==
    leaderboard.scoringType = "both"
    => \A i, j \in EntryIndexes :
          (/\ i < j
           /\ leaderboard.entries[i].simpleScore = leaderboard.entries[j].simpleScore)
          => leaderboard.entries[i].weightedScore >= leaderboard.entries[j].weightedScore

\* C12 as stated: a call that ends in an error leaves the games as they were
\* when it was started.
C12_FailureLeavesGames ==
    \A c \in Callers : Call(c).pc = "thrown" => games = Call(c).base

\* the table after the two calls of a pair, run one after the other
Serial(first, second) ==
    updateGameWinner(
        updateGameWinner(Call(first).base, seeds, Call(first).gameId, Call(first).winner),
        seeds, Call(second).gameId, Call(second).winner)

\* C13 as stated: when two calls that ran at the same time have both finished,
\* the games are those that one of the two serial orders of the calls gives,
\* and the divisional matchups are those of the wild card winners stored.
C13_SerialOutcome ==
    (\A c \in Callers : Finished(c))
    => /\ games \in {Serial(1, 2), Serial(2, 1)}
       /\ \A d \in InRound("divisional") :
             MatchupFields(games[d]) = MatchupFields(reseedPlayoffBracket(games, seeds)[d])

\* C14 as stated: the games read while a call is in flight on a complete
\* season are the games before the call or the games after it, never a state
\* in between.
C14_ReadsWholeCalls ==
    (run.seen # <<>> /\ DeletedGames(games) = {})
    => run.seen \in {Call(1).base,
                     updateGameWinner(Call(1).base, seeds, Call(1).gameId, Call(1).winner)}

\* a prediction row is pending when its game does not exist or has no winner
Pending(row) == row.game_id \notin GameIds \/ games[row.game_id].winner = NULL

\* the lobby without its pending rows
SettledLobby ==
    [lobby EXCEPT !.predictions = SelectSeq(@, LAMBDA row : ~Pending(row))]

\* the rows of a participant that are not pending
SettledRows(participantId) ==
    {k \in 1..Len(lobby.predictions) :
        /\ lobby.predictions[k].participant_id = participantId
        /\ ~Pending(lobby.predictions[k])}

\* C21 Pending predictions score zero: in a computed leaderboard the
\* simpleScore, weightedScore and correctPicks of every entry are what they
\* are without the rows whose game is missing or has no winner, and no entry
\* has more correct picks than rows on decided games; a participant with
\* pending rows only has 0, 0 and 0.
C21_PendingScoreZero ==
    leaderboard.scoringType # "none"
    => LET settled == calculateLeaderboard(games, SettledLobby, leaderboard.scoringType)
       IN  \A k \in EntryIndexes :
              LET e == leaderboard.entries[k]
              IN  /\ e.participantId = settled[k].participantId
                  /\ e.simpleScore = settled[k].simpleScore
                  /\ e.weightedScore = settled[k].weightedScore
                  /\ e.correctPicks = settled[k].correctPicks
                  /\ e.correctPicks <= Cardinality(SettledRows(e.participantId))
                  /\ SettledRows(e.participantId) = {}
                       => e.simpleScore = 0 /\ e.weightedScore = 0 /\ e.correctPicks = 0

\* a leaderboard computed after a changed winner cleared a later game: a
\* participant with points has a pick on a re-seeded game that is undecided,
\* and another participant has rows of an earlier bracket only
C21_Witness ==
    /\ leaderboard.scoringType # "none"
    /\ last.kind = "rewrite"
    /\ \E k \in EntryIndexes :
          /\ leaderboard.entries[k].simpleScore > 0
          /\ \E r \in 1..Len(lobby.predictions) :
                /\ lobby.predictions[r].participant_id = leaderboard.entries[k].participantId
                /\ lobby.predictions[r].game_id \in LaterGames
                /\ games[lobby.predictions[r].game_id].is_actual_matchup
                /\ games[lobby.predictions[r].game_id].winner = NULL
                /\ IsTeamOf(games[lobby.predictions[r].game_id],
                            lobby.predictions[r].predicted_winner)
    /\ \E k \in EntryIndexes :
          /\ leaderboard.entries[k].totalPicks = 0
          /\ \E r \in 1..Len(lobby.predictions) :
                /\ lobby.predictions[r].participant_id = leaderboard.entries[k].participantId
                /\ lobby.predictions[r].game_id \notin GameIds

\* the correct rows of a participant in a round whose predicted opponent is
\* (matched) or is not (~matched) one of the two teams of the game
CorrectByMatchup(participantId, round, matched) ==
    {k \in CorrectPicks(participantId, round) :
        IsTeamOf(games[lobby.predictions[k].game_id],
                 lobby.predictions[k].predicted_opponent) = matched}

MatchedIn(participantId, round) == Cardinality(CorrectByMatchup(participantId, round, TRUE))

UnmatchedIn(participantId, round) == Cardinality(CorrectByMatchup(participantId, round, FALSE))

RowsOf(participantId) ==
    {k \in 1..Len(lobby.predictions) : lobby.predictions[k].participant_id = participantId}

\* C23 Leaderboard ordering: a computed leaderboard has exactly one entry for
\* each participant of the lobby, also for one without predictions; under
\* "weighted" the weightedScore never increases down the list, under "simple"
\* the simpleScore never increases.
C23_LeaderboardOrdering ==
    leaderboard.scoringType \in {"simple", "weighted"}
    => /\ Len(leaderboard.entries) = Len(lobby.participants)
       /\ \A p \in 1..Len(lobby.participants) :
             Cardinality({k \in EntryIndexes :
                 leaderboard.entries[k].participantId = lobby.participants[p]}) = 1
       /\ \A i, j \in EntryIndexes :
             i < j => IF leaderboard.scoringType = "weighted"
                      THEN leaderboard.entries[i].weightedScore >= leaderboard.entries[j].weightedScore
                      ELSE leaderboard.entries[i].simpleScore >= leaderboard.entries[j].simpleScore

\* a weighted leaderboard that lists the second participant first, ahead of
\* a first participant who has no predictions
C23_Witness ==
    /\ leaderboard.scoringType = "weighted"
    /\ Len(leaderboard.entries) = 2
    /\ leaderboard.entries[1].participantId = 2
    /\ leaderboard.entries[1].weightedScore > leaderboard.entries[2].weightedScore
    /\ RowsOf(leaderboard.entries[2].participantId) = {}

\* C24 Unknown game: a call for a game id that is not in the games table fails
\* with 'Game not found' and leaves every game and every seed as it was.
C24_MissingGameNotFound ==
    [][last'.kind = "missing"
       => (result' = "Game not found" /\ games' = games /\ seeds' = seeds)]_vars

\* a call for an unknown id was refused on a bracket whose wild card round is
\* decided and whose divisional round is set
C24_Witness ==
    /\ last.kind = "missing"
    /\ result = "Game not found"
    /\ RoundDecided("wild_card")
    /\ \A d \in InRound("divisional") : games[d].is_actual_matchup

\* a decided wild card game of the conference is given another winner
WildCardWinnerChange(conference) ==
    \E i \in OfConference("wild_card", conference) :
        Decided(games[i]) /\ games'[i].winner # games[i].winner

\* C25 Unchanged matchup keeps its result: when a decided wild card game is
\* given another winner, every divisional game of that conference whose pair
\* after the call is the pair it had before keeps its teams, seeds, winner and
\* completed flag; only the game whose pair changed is rewritten.
C25_UnchangedMatchupKept ==
    [][\A c \in {"AFC", "NFC"} :
          WildCardWinnerChange(c)
          => \A d \in OfConference("divisional", c) :
                Pair(games'[d]) = Pair(games[d]) => games'[d] = games[d]]_vars

\* rank 5 of the AFC advanced instead of rank 4 after the divisional round was
\* played: #1 now meets #5 and stands undecided, #2 v #3 is still decided
C25_Witness ==
    /\ last.kind = "rewrite"
    /\ games[Slot("wild_card", "AFC", 3)].winner = TeamName("AFC", 5)
    /\ LET first  == games[Slot("divisional", "AFC", 1)]
           second == games[Slot("divisional", "AFC", 2)]
       IN  /\ Pair(first) = <<TeamName("AFC", 1), TeamName("AFC", 5)>>
           /\ Undecided(first)
           /\ Pair(second) = <<TeamName("AFC", 2), TeamName("AFC", 3)>>
           /\ Decided(second) /\ second.seed_home = 2 /\ second.seed_away = 3

\* C26 Placeholders carry no result: in every reachable state a game whose
\* is_actual_matchup flag is not set has no winner and is not completed.
C26_PlaceholdersCarryNoResult ==
    \A i \in GameIds : ~games[i].is_actual_matchup => Undecided(games[i])

\* C27 Home is the better seed: in every state reached by calls whose winner
\* is one of the game's two teams, every divisional and conference-round game
\* with is_actual_matchup set has both seeds, and seed_home < seed_away.
C27_HomeIsBetterSeed ==
    \A i \in InRound("divisional") \cup InRound("conference") :
        games[i].is_actual_matchup
        => /\ games[i].seed_home # NullSeed /\ games[i].seed_away # NullSeed
           /\ games[i].seed_home < games[i].seed_away

\* C28 Seed lookup is per conference: every divisional and conference-round
\* game with is_actual_matchup set stores, for its home and its away team, the
\* rank the team has in the game's own conference, the better rank at home,
\* also when a team identifier is seeded in both conferences.
C28_SeedLookupPerConference ==
    \A i \in InRound("divisional") \cup InRound("conference") :
        games[i].is_actual_matchup
        => /\ games[i].seed_home = RankIn(ConferenceOf(games[i]), games[i].team_home)
           /\ games[i].seed_away = RankIn(ConferenceOf(games[i]), games[i].team_away)
           /\ games[i].seed_home < games[i].seed_away

\* the games that are completed, and those a winner can be recorded for
CompletedGames == {i \in GameIds : games[i].completed}

OpenGames == {i \in GameIds : games[i].is_actual_matchup /\ ~games[i].completed}

\* C29 Progress to a decided bracket: in every state of a season played forward
\* from a fresh bracket, while the final is undecided there is a game with an
\* actual matchup that is not completed; recording either team of any such
\* game gives it that winner, keeps every earlier result and completes exactly
\* that one game more, so the number of completed games is the number of
\* recordings; and when it is 13 every game is completed with an actual matchup.
C29_ProgressToDecidedBracket ==
    /\ \A f \in InRound("super_bowl") : ~Decided(games[f]) => OpenGames # {}
    /\ \A i \in OpenGames : \A w \in {games[i].team_home, games[i].team_away} :
          LET after == updateGameWinner(games, seeds, i, w)
          IN  /\ after[i].winner = w
              /\ \A j \in CompletedGames : after[j].winner = games[j].winner
              /\ {j \in DOMAIN after : after[j].completed} = CompletedGames \cup {i}
    /\ Cardinality(CompletedGames) = Len(games)
          => \A i \in GameIds : Decided(games[i]) /\ games[i].is_actual_matchup

\* the bracket was played through with an upset in the wild card round: all
\* 13 games are completed after 13 recordings
C29_Witness ==
    /\ Len(games) = 13
    /\ Cardinality(CompletedGames) = 13
    /\ \A i \in GameIds : Decided(games[i]) /\ games[i].is_actual_matchup
    /\ \E i \in InRound("wild_card") : games[i].winner = games[i].team_away
    /\ last.kind = "new"

\* C30 The recorded winner sticks: in every state reached by calls made one
\* at a time, a call for any game g with any winner w that returns without an
\* error leaves g with winner w and completed, and with the teams, seeds and
\* actual-matchup flag g had before the call: the re-seeding run of the call
\* neither rewrites nor clears g.
C30_RecordedWinnerSticks ==
    \A g \in GameIds : \A w \in WinnerInputs(games[g]) :
        Outcome(games, g, w) = "ok"
        => LET after == updateGameWinner(games, seeds, g, w)
           IN  /\ after[g].winner = w
               /\ after[g].completed
               /\ MatchupFields(after[g]) = MatchupFields(games[g])

\* a decided divisional game was given its other team as winner: it is
\* decided, its conference-round game and the final were cleared by the
\* cascade of that call
C30_Witness ==
    /\ last.kind = "rewrite" /\ last.teamOf /\ result = "ok"
    /\ RoundDecided("wild_card") /\ RoundDecided("divisional")
    /\ \E c \in InRound("conference") : Undecided(games[c]) /\ games[c].is_actual_matchup
    /\ \A f \in InRound("super_bowl") : Undecided(games[f]) /\ games[f].is_actual_matchup
====
